---- MODULE Spec2Model ----
(***************************************************************************)
(* Top-10 analytics over a line-delimited tweet file: the six query        *)
(* functions q1_time, q1_memory, q2_time, q2_memory, q3_time, q3_memory.   *)
(*                                                                         *)
(* Values.  A string is the sequence of its code points.  A nullable value *)
(* is a sequence of length 0 (null) or 1 (the value), so that the null     *)
(* string <<>> and the empty string << <<>> >> differ.  A line of the file *)
(* either decodes to a record or is no JSON document.  A record has the    *)
(* four fields the queries read:                                           *)
(*   date            nullable string                                       *)
(*   user            nullable struct [username : nullable string]          *)
(*   content         nullable string                                       *)
(*   mentionedUsers  nullable list of nullable structs [username : ...]    *)
(* Every record carries the four fields (null where it has no value), and  *)
(* the columns of a file that has records have the types the queries       *)
(* expect (String, Struct, List).  A file without lines has no columns.    *)
(*                                                                         *)
(* The dataset profiler, profile_dataset, is modelled apart, under         *)
(* SpecProfile: its files also hold tweets that lack some of the fields    *)
(* and lines that decode to a JSON value that is no object.                *)
(***************************************************************************)
EXTENDS Integers, Sequences, FiniteSets, TLC

VARIABLES
    readable,   \* file_path resolves to a file that can be read
    source,     \* the NDJSON file: the sequence of its lines
    emit,       \* the order in which the next group_by emits its groups
    fn,         \* the query function invoked last ("none" before any call)
    pc,         \* its position: "idle", "secondary", "rows", "done"
    df,         \* the materialized DataFrame the function holds
    acc,        \* the count accumulator of the current pass (key -> count)
    top,        \* top_dates / emoji_counts / top_10: sorted rows <<key, count>>
    results,    \* q1_memory's results list while its loop runs
    i,          \* loop index (row of top_dates, row of df)
    ret,        \* what the call returned or raised
    scans,      \* the collect() calls the function has made: scans of the file
    other,      \* the locals of a second call, suspended while this one runs
    sample_size, \* profile_dataset's sample_size argument
    stats       \* profile_dataset's stats dictionary

vars == <<readable, source, emit, fn, pc, df, acc, top, results, i, ret,
          scans, other, sample_size, stats>>

----------------------------------------------------------------------------
(* Bounds of the model *)

\* longest free tail of records appended to a source prefix
MaxRecs == 2

----------------------------------------------------------------------------
(* Program constants *)

\* .head(10): the K of every top-K
TopK == 10

\* .str.slice(0, 10): the calendar-day prefix of the date field
DateLen == 10

----------------------------------------------------------------------------
(* Nullable values and strings *)

Null == <<>>

Some(v) == <<v>>

IsNotNull(x) == x # Null

Min(a, b) == IF a <= b THEN a ELSE b

Range(s) == {s[n] : n \in DOMAIN s}

\* lexicographic order on strings by code point (the order of polars' sort
\* on Utf8 and of Python's str comparison)
RECURSIVE StrLessFrom(_, _, _)
StrLessFrom(a, b, k) ==
    IF k > Len(a) THEN k <= Len(b)
    ELSE IF k > Len(b) THEN FALSE
    ELSE IF a[k] = b[k] THEN StrLessFrom(a, b, k + 1)
    ELSE a[k] < b[k]

StrLess(a, b) == StrLessFrom(a, b, 1)

----------------------------------------------------------------------------
(* The polars expressions the queries are built from.  A frame is the      *)
(* sequence of its rows, .filter(test) is SelectSeq(frame, test).          *)

\* pl.col(c).str.slice(offset, length) on a nullable string: null stays
\* null, a shorter string is returned whole
StrSlice(x, offset, length) ==
    IF x = Null THEN Null
    ELSE Some(SubSeq(x[1], offset + 1, Min(Len(x[1]), offset + length)))

\* pl.col(c).struct.field("username") on a nullable struct
StructFieldUsername(x) == IF x = Null THEN Null ELSE x[1].username

\* .group_by(col).agg(pl.len()): one group per distinct value of the
\* column, each with the number of rows that carry it.  The groups come in
\* no order: the accumulator is a function key -> count.
GroupByLen(col) ==
    [k \in Range(col) |-> Cardinality({n \in DOMAIN col : col[n] = k})]

\* the orders in which a group_by may emit its groups (maintain_order is
\* off: polars promises no order): by key ascending, by key descending.
\* The order changes from one step of the model to the next; the group_bys
\* of one step share it.
Orders == {"asc", "desc"}

\* group_by emits the group of key a before the group of key b
EmitsBefore(a, b) == IF emit = "asc" THEN StrLess(a, b) ELSE StrLess(b, a)

\* the sort order without its tie-break: .sort("count", descending=True)
CountDesc(x, y) == x[2] > y[2]

\* the sort order with the key descending too: descending=[True, True]
CountDescKeyDesc(x, y) ==
    \/ x[2] > y[2]
    \/ x[2] = y[2] /\ StrLess(y[1], x[1])

\* row <<key, count>> x sorts before row y under
\* .sort([count, key], descending=[True, False])
CountDescKeyAsc(x, y) ==
    \/ x[2] > y[2]
    \/ x[2] = y[2] /\ StrLess(x[1], y[1])

\* .sort([count, key], descending=[True, False]) of the groups of an
\* accumulator: the rows <<key, count>> in that order.  The sort is
\* stable: rows the order does not tell apart stay as group_by emitted them.
SortCountDescKeyAsc(a) ==
    LET rows == {<<k, a[k]>> : k \in DOMAIN a}
        First(q, r) ==
            \/ CountDescKeyAsc(q, r)
            \/ /\ q # r
               /\ ~CountDescKeyAsc(r, q)
               /\ EmitsBefore(q[1], r[1])
        before == [r \in rows |-> Cardinality({q \in rows : First(q, r)})]
    IN  [n \in 1..Cardinality(rows) |-> CHOOSE r \in rows : before[r] = n - 1]

\* .head(n) left out: every row is kept
head_all(s, n) == s

\* .head(n)
head(s, n) == SubSeq(s, 1, Min(n, Len(s)))

\* .explode(col) of a column of non-null lists: one row per element, and
\* one null row for an empty list
RECURSIVE Explode(_)
Explode(col) ==
    IF col = <<>> THEN <<>>
    ELSE (IF col[1] = <<>> THEN <<Null>> ELSE col[1]) \o Explode(Tail(col))

\* the values of a nullable column after .filter(col.is_not_null())
DropNulls(col) ==
    LET kept == SelectSeq(col, IsNotNull)
    IN  [n \in DOMAIN kept |-> kept[n][1]]

----------------------------------------------------------------------------
(* datetime.strptime(date_str, "%Y-%m-%d").date() *)

IsDigit(c) == c \in 48..57

IsLeap(y) == (y % 4 = 0 /\ y % 100 # 0) \/ y % 400 = 0

DaysInMonth(y, m) ==
    IF m = 2 THEN (IF IsLeap(y) THEN 29 ELSE 28)
    ELSE IF m \in {4, 6, 9, 11} THEN 30 ELSE 31

\* Null when strptime raises ValueError, else the date.  The format's
\* regex is (\d\d\d\d)-(1[0-2]|0[1-9]|[1-9])-(3[0-1]|[1-2]\d|0[1-9]|[1-9]| [1-9])
\* matched at the start; text left after the match and a day the month
\* does not have are ValueErrors too.
StrpTime(s) ==
    LET at(p) == IF p <= Len(s) THEN s[p] ELSE 0
        yearOk == /\ \A p \in 1..4 : IsDigit(at(p))
                  /\ at(5) = 45
        year == 1000 * (at(1) - 48) + 100 * (at(2) - 48)
                    + 10 * (at(3) - 48) + (at(4) - 48)
        m2 == /\ \/ at(6) = 49 /\ at(7) \in 48..50
                 \/ at(6) = 48 /\ at(7) \in 49..57
              /\ at(8) = 45
        m1 == at(6) \in 49..57 /\ at(7) = 45
        month == IF m2 THEN 10 * (at(6) - 48) + (at(7) - 48) ELSE at(6) - 48
        q == IF m2 THEN 9 ELSE 8
        d2 == \/ at(q) = 51 /\ at(q + 1) \in 48..49
              \/ at(q) \in 49..50 /\ IsDigit(at(q + 1))
              \/ at(q) = 48 /\ at(q + 1) \in 49..57
        d1 == at(q) \in 49..57
        dsp == at(q) = 32 /\ at(q + 1) \in 49..57
        day == IF d2 THEN 10 * (at(q) - 48) + (at(q + 1) - 48)
               ELSE IF d1 THEN at(q) - 48 ELSE at(q + 1) - 48
        end == IF d2 \/ (~d1 /\ dsp) THEN q + 1 ELSE q
    IN  IF /\ yearOk
           /\ m2 \/ m1
           /\ d2 \/ d1 \/ dsp
           /\ end = Len(s)
           /\ year >= 1
           /\ day <= DaysInMonth(year, month)
        THEN Some([year |-> year, month |-> month, day |-> day])
        ELSE Null

\* json decoding of a line: a line that is no JSON document carries the
\* decoder's error and no value
Decodes(line) == "error" \notin DOMAIN line

\* the scan with a file that cannot be opened taken for one that decodes
ScanError_ignores_missing_file(src) ==
    IF readable /\ \E n \in DOMAIN src : ~Decodes(src[n]) THEN "ComputeError"
    ELSE IF readable /\ src = <<>> THEN "ColumnNotFoundError"
    ELSE "ok"

\* what the scan of pl.scan_ndjson(file_path) raises when a collect() runs
\* it, "ok" when it raises nothing: the file cannot be opened; a line does
\* not decode (ignore_errors is off); the file has no line, hence no column
\* for pl.col to find
ScanError(src) ==
    IF ~readable THEN "FileNotFoundError"
    ELSE IF \E n \in DOMAIN src : ~Decodes(src[n]) THEN "ComputeError"
    ELSE IF src = <<>> THEN "ColumnNotFoundError"
    ELSE "ok"

\* what a call returns or raises
Returned(v) == [status |-> "ok", value |-> v]

Raised(e) == [status |-> e, value |-> <<>>]

NoReturn == [status |-> "none", value |-> <<>>]

\* a call that raised e before it built anything
Failed(e) == [df |-> <<>>, acc |-> <<>>, top |-> <<>>, ret |-> Raised(e)]

\* the values of one column of a frame whose rows are records
Column(frame, c) == [n \in DOMAIN frame |-> frame[n][c]]

----------------------------------------------------------------------------
(* Q1: top 10 dates by tweet count, with the most active user of each *)

\* .select([date.str.slice(0, 10) as date_only, user.username as username])
Q1Select(src) ==
    [n \in DOMAIN src |->
        [date_only |-> StrSlice(src[n].date, 0, DateLen),
         username  |-> StructFieldUsername(src[n].user)]]

\* the filter with its username test left out
Q1Valid_date_only(row) == IsNotNull(row.date_only)

\* username.is_not_null() & date_only.is_not_null()
Q1Valid(row) == IsNotNull(row.username) /\ IsNotNull(row.date_only)

\* group_by("date_only").agg(len): the per-date accumulator of a frame
Q1DateCounts(frame) == GroupByLen(DropNulls(Column(frame, "date_only")))

\* .sort(["tweet_count", "date_only"], descending=[True, False]).head(10)
Q1TopDates(counts) == head(SortCountDescKeyAsc(counts), TopK)

\* the per-date user count with the filter on the date left out
Q1UserCounts_all_dates(frame, date_str) ==
    GroupByLen(DropNulls(Column(frame, "username")))

\* the per-date user count with the date compared on its year and month
\* only, as after a slice(0, 7)
Q1UserCounts_month_only(frame, date_str) ==
    LET OnDate(row) ==
            row.date_only = Some(SubSeq(date_str, 1, Min(7, Len(date_str))))
    IN  GroupByLen(DropNulls(Column(SelectSeq(frame, OnDate), "username")))

\* .filter(date_only == date_str).group_by("username").agg(len)
Q1UserCounts(frame, date_str) ==
    LET OnDate(row) == row.date_only = Some(date_str)
    IN  GroupByLen(DropNulls(Column(SelectSeq(frame, OnDate), "username")))

\* .sort(["user_tweet_count", "username"], descending=[True, False]).head(1)
Q1TopUser(counts) == head(SortCountDescKeyAsc(counts), 1)

\* the tuple appended to results with the count of the top user added
Q1Entry_with_count(top_user, date_str) ==
    IF Len(top_user) = 0 THEN Raised("IndexError")
    ELSE IF StrpTime(date_str) = Null THEN Raised("ValueError")
    ELSE Returned(<<StrpTime(date_str)[1], top_user[1][1], top_user[1][2]>>)

\* username = top_user["username"][0]; date_obj = strptime(date_str);
\* the tuple appended to results, or the exception raised
Q1Entry(top_user, date_str) ==
    IF Len(top_user) = 0 THEN Raised("IndexError")
    ELSE IF StrpTime(date_str) = Null THEN Raised("ValueError")
    ELSE Returned(<<StrpTime(date_str)[1], top_user[1][1]>>)

\* q1_time: the eager frame
q1_time_df(src) == SelectSeq(Q1Select(src), Q1Valid)

\* q1_time: the loop over the rows of top_dates, filtering the frame held
\* in memory; the first iteration that raises ends the call
q1_time_loop(frame, dates) ==
    LET entry == [k \in DOMAIN dates |->
                    Q1Entry(Q1TopUser(Q1UserCounts(frame, dates[k][1])),
                            dates[k][1])]
        raising == {k \in DOMAIN dates : entry[k].status # "ok"}
    IN  IF raising = {}
        THEN Returned([k \in DOMAIN dates |-> entry[k].value])
        ELSE entry[CHOOSE k \in raising : \A j \in raising : k <= j]

\* q1_time(file_path): its frame, date accumulator, top_dates and outcome
q1_time(src) ==
    LET frame == q1_time_df(src)
        counts == Q1DateCounts(frame)
        dates == Q1TopDates(counts)
    IN  IF ScanError(src) # "ok" THEN Failed(ScanError(src))
        ELSE [df |-> frame, acc |-> counts, top |-> dates,
              ret |-> q1_time_loop(frame, dates)]

\* q1_memory's lazy_df with the username test of its filter left out
q1_memory_lazy_df_no_user_filter(src) ==
    LET HasDate(row) == IsNotNull(row.date_only)
    IN  SelectSeq(Q1Select(src), HasDate)

\* q1_memory's scan reading on from where the pass before it stopped, the
\* end of the file, instead of from the first line
q1_memory_lazy_df_not_rewound(src) ==
    IF pc = "secondary" THEN <<>> ELSE SelectSeq(Q1Select(src), Q1Valid)

\* q1_memory: what one collect() of lazy_df scans from the file
q1_memory_lazy_df(src) == SelectSeq(Q1Select(src), Q1Valid)

----------------------------------------------------------------------------
(* Q2: top 10 emojis of the content field *)

\* the code points emoji.emoji_list recognises: the Emoticons block
\* U+1F600..U+1F64F
IsEmoji(c) == c \in 128512..128591

\* [e['emoji'] for e in emoji.emoji_list(x)]: every emoji occurrence of the
\* text, in text order, each as a string
emoji_list(x) ==
    LET hits == SelectSeq(x, IsEmoji)
    IN  [n \in DOMAIN hits |-> <<hits[n]>>]

\* .select([content]).filter(content.is_not_null()): the content strings
Q2Contents(src) == DropNulls(Column(src, "content"))

\* map_elements(lambda x: [...] if x else []): the emoji_list column, a
\* list of strings per row
q2_time_df(src) ==
    LET contents == Q2Contents(src)
    IN  [n \in DOMAIN contents |->
            IF contents[n] # <<>>
            THEN [k \in DOMAIN emoji_list(contents[n]) |->
                     Some(emoji_list(contents[n])[k])]
            ELSE <<>>]

\* q2_time(file_path)
q2_time(src) ==
    LET frame == q2_time_df(src)
        counts == GroupByLen(DropNulls(Explode(frame)))
        emoji_counts == head(SortCountDescKeyAsc(counts), TopK)
    IN  IF ScanError(src) # "ok" THEN Failed(ScanError(src))
        ELSE [df |-> frame, acc |-> counts, top |-> emoji_counts,
              ret |-> Returned(emoji_counts)]

\* emoji_counter[emoji_char] = 1 in place of += 1
Increment_reset(counter, k) ==
    IF k \in DOMAIN counter THEN [counter EXCEPT ![k] = 1]
    ELSE counter @@ (k :> 1)

\* emoji_counter[emoji_char] += 1
Increment(counter, k) ==
    IF k \in DOMAIN counter THEN [counter EXCEPT ![k] = @ + 1]
    ELSE counter @@ (k :> 1)

\* the inner loop stopping after the first emoji found
CountEmojis_first(counter, found) ==
    IF found = <<>> THEN counter ELSE Increment(counter, found[1])

\* for emoji_data in emojis_found: emoji_counter[emoji_data['emoji']] += 1
RECURSIVE CountEmojis(_, _)
CountEmojis(counter, found) ==
    IF found = <<>> THEN counter
    ELSE CountEmojis(Increment(counter, found[1]), Tail(found))

\* q2_memory's loop body counting every emoji of a row once, however often
\* the row repeats it
q2_memory_row_once(counter, content) ==
    IF content # <<>>
    THEN LET found == emoji_list(content)
             first == SelectSeq([n \in DOMAIN found |-> <<n, found[n]>>],
                                LAMBDA p : \A j \in 1..(p[1] - 1) : found[j] # p[2])
         IN  CountEmojis(counter, [n \in DOMAIN first |-> first[n][2]])
    ELSE counter

\* the loop body of q2_memory for one row of df
q2_memory_row(counter, content) ==
    IF content # <<>> THEN CountEmojis(counter, emoji_list(content))
    ELSE counter

\* item x sorts before item y under key=lambda x: (-x[1], x[0])
PyKeyLess(x, y) ==
    \/ (0 - x[2]) < (0 - y[2])
    \/ (0 - x[2]) = (0 - y[2]) /\ StrLess(x[1], y[1])

\* sorted(emoji_counter.items(), key=lambda x: (-x[1], x[0]))[:10]
q2_memory_top_10(counter) ==
    LET items == {<<k, counter[k]>> : k \in DOMAIN counter}
        before == [r \in items |-> Cardinality({q \in items : PyKeyLess(q, r)})]
        sorted == [n \in 1..Cardinality(items) |->
                     CHOOSE r \in items : before[r] = n - 1]
    IN  SubSeq(sorted, 1, Min(TopK, Len(sorted)))

----------------------------------------------------------------------------
(* Q3: top 10 mentioned usernames *)

\* mentionedUsers.is_not_null() & (mentionedUsers.list.len() > 0)
Q3HasMentions(m) == IsNotNull(m) /\ Len(m[1]) > 0

\* the usernames with the explode left out: the first entry of each list
Q3Usernames_first(lists) ==
    DropNulls([n \in DOMAIN lists |->
                 IF lists[n] = <<>> THEN Null
                 ELSE StructFieldUsername(lists[n][1])])

\* the usernames with the filter on null left out: a null username stays,
\* as the key <<>>
Q3Usernames_keep_null(lists) ==
    LET mentions == Explode(lists)
    IN  [n \in DOMAIN mentions |->
            IF StructFieldUsername(mentions[n]) = Null THEN <<>>
            ELSE StructFieldUsername(mentions[n])[1]]

\* .explode("mentionedUsers") ... struct.field("username") ...
\* .filter(username.is_not_null()): the mentioned usernames of the kept rows
Q3Usernames(lists) ==
    LET mentions == Explode(lists)
    IN  DropNulls([n \in DOMAIN mentions |-> StructFieldUsername(mentions[n])])

\* q3_time: the eager frame, the non-empty mention lists
q3_time_df(src) ==
    LET kept == SelectSeq(Column(src, "mentionedUsers"), Q3HasMentions)
    IN  [n \in DOMAIN kept |-> kept[n][1]]

\* q3_time(file_path)
q3_time(src) ==
    LET frame == q3_time_df(src)
        mentions_df == Q3Usernames(frame)
        counts == GroupByLen(mentions_df)
        top_10 == head(SortCountDescKeyAsc(counts), TopK)
    IN  IF ScanError(src) # "ok" THEN Failed(ScanError(src))
        ELSE [df |-> frame, acc |-> counts, top |-> top_10,
              ret |-> Returned(top_10)]

\* q3_memory with the username tie-break of its sort descending
q3_memory_tie_desc(src) ==
    LET kept == SelectSeq(Column(src, "mentionedUsers"), Q3HasMentions)
        lazy_df == [n \in DOMAIN kept |-> kept[n][1]]
        counts == GroupByLen(Q3Usernames(lazy_df))
        rows == {<<k, counts[k]>> : k \in DOMAIN counts}
        Before(x, y) == x[2] > y[2] \/ (x[2] = y[2] /\ StrLess(y[1], x[1]))
        before == [r \in rows |-> Cardinality({q \in rows : Before(q, r)})]
        sorted == [n \in 1..Cardinality(rows) |->
                     CHOOSE r \in rows : before[r] = n - 1]
    IN  IF ScanError(src) # "ok" THEN Failed(ScanError(src))
        ELSE [df |-> <<>>, acc |-> counts, top |-> head(sorted, TopK),
              ret |-> Returned(head(sorted, TopK))]

\* q3_memory(file_path): one lazy plan, collected once; only top_10 is
\* materialized
q3_memory(src) ==
    LET kept == SelectSeq(Column(src, "mentionedUsers"), Q3HasMentions)
        lazy_df == [n \in DOMAIN kept |-> kept[n][1]]
        counts == GroupByLen(Q3Usernames(lazy_df))
        top_10 == head(SortCountDescKeyAsc(counts), TopK)
    IN  IF ScanError(src) # "ok" THEN Failed(ScanError(src))
        ELSE [df |-> <<>>, acc |-> counts, top |-> top_10,
              ret |-> Returned(top_10)]

----------------------------------------------------------------------------
(* The inputs: files of records *)

Rec(d, u, c, m) == [date |-> d, user |-> u, content |-> c, mentionedUsers |-> m]

\* a line that is no JSON document, such as a record cut short
Undecodable ==
    [date |-> Null, user |-> Null, content |-> Null, mentionedUsers |-> Null,
     error |-> "JSONDecodeError"]

User(name) == Some([username |-> name])

\* "2021-mm-dd"
DayStr(mm, dd) ==
    <<50, 48, 50, 49, 45, 48 + (mm \div 10), 48 + (mm % 10), 45,
      48 + (dd \div 10), 48 + (dd % 10)>>

\* "T10:00:00+00:00" and "T23:59:59+00:00"
TimeA == <<84, 49, 48, 58, 48, 48, 58, 48, 48, 43, 48, 48, 58, 48, 48>>

TimeB == <<84, 50, 51, 58, 53, 57, 58, 53, 57, 43, 48, 48, 58, 48, 48>>

D1a == DayStr(2, 1) \o TimeA

D1b == DayStr(2, 1) \o TimeB

D2a == DayStr(2, 2) \o TimeA

\* "2021": a date value that is no calendar day
BadDate == <<50, 48, 50, 49>>

\* "2021-2-1": the first of February written without zero padding
AltDate == <<50, 48, 50, 49, 45, 50, 45, 49>>

UserA == <<65>>

UserB == <<66>>

UserC == <<67>>

UserX == <<88>>

UserY == <<89>>

Alice == <<97, 108, 105, 99, 101>>

Bob == <<98, 111, 98>>

\* the emojis U+1F64F (folded hands) and U+1F600 (grinning face)
Pray == <<128591>>

Grin == <<128512>>

\* the records varied for Q1: date and user.username
Q1Recs ==
    {Rec(Some(d), User(Some(u)), Null, Null) :
        d \in {D1a, D1b, D2a}, u \in {UserA, UserB}}
    \cup {Rec(Null, User(Some(UserA)), Null, Null),
          Rec(Some(D1a), Null, Null, Null),
          Rec(Some(D1a), User(Null), Null, Null),
          Rec(Some(BadDate), User(Some(UserA)), Null, Null),
          Rec(Some(AltDate), User(Some(UserB)), Null, Null)}

\* eleven distinct emojis in one text
WideContent == [n \in 1..(TopK + 1) |-> 128512 + n]

\* the records varied for Q2: content
Q2Recs ==
    {Rec(Some(D1a), User(Some(UserA)), c, Null) :
        c \in {Null, Some(<<>>), Some(<<104, 105>>), Some(Pray \o Pray),
               Some(Pray \o Grin), Some(<<97>> \o Grin \o <<98, 128514>>), Some(WideContent)}}

Mention(name) == Some([username |-> name])

\* eleven distinct usernames "a" .. "k" in one mention list
WideMentions == [n \in 1..(TopK + 1) |-> Mention(Some(<<96 + n>>))]

\* the records varied for Q3: mentionedUsers
Q3Recs ==
    {Rec(Some(D1a), User(Some(UserA)), Null, m) :
        m \in {Null, Some(<<>>),
               Some(<<Mention(Some(UserX)), Mention(Some(UserY))>>),
               Some(<<Mention(Some(UserX))>>),
               Some(<<Mention(Some(UserY)), Mention(Null), Null>>),
               Some(WideMentions)}}

\* eleven records on eleven distinct days: 2021-02-02, 2021-02-01, then
\* 2021-01-21 .. 2021-01-29
ElevenDays ==
    <<Rec(Some(D2a), User(Some(UserC)), Null, Null),
      Rec(Some(D1b), User(Some(UserB)), Null, Null)>>
    \o [n \in 1..(TopK - 1) |->
          Rec(Some(DayStr(1, 20 + n) \o TimeA), User(Some(UserC)), Null, Null)]

\* three records on 2021-02-01 by A, A, B and one on 2021-02-02 by C
ScenarioQ1 ==
    <<Rec(Some(D1a), User(Some(UserA)), Null, Null),
      Rec(Some(D1b), User(Some(UserA)), Null, Null),
      Rec(Some(D1a), User(Some(UserB)), Null, Null),
      Rec(Some(D2a), User(Some(UserC)), Null, Null)>>

\* two records on 2021-02-01 by B and A, two on 2021-02-02 by C, one
\* without a date and one without a user
ScenarioQ1Ties ==
    <<Rec(Some(D1a), User(Some(UserB)), Null, Null),
      Rec(Some(D1b), User(Some(UserA)), Null, Null),
      Rec(Null, User(Some(UserA)), Null, Null),
      Rec(Some(D2a), Null, Null, Null),
      Rec(Some(D2a), User(Some(UserC)), Null, Null),
      Rec(Some(D2a), User(Some(UserC)), Null, Null)>>

\* contents "\U0001F64F\U0001F64F", "\U0001F64F\U0001F600", null
ScenarioQ2 ==
    <<Rec(Some(D1a), User(Some(UserA)), Some(Pray \o Pray), Null),
      Rec(Some(D1a), User(Some(UserA)), Some(Pray \o Grin), Null),
      Rec(Some(D1a), User(Some(UserA)), Null, Null)>>

\* mention lists [X, Y], [X], null, []
ScenarioQ3 ==
    <<Rec(Some(D1a), User(Some(UserA)), Null,
          Some(<<Mention(Some(UserX)), Mention(Some(UserY))>>)),
      Rec(Some(D1a), User(Some(UserA)), Null, Some(<<Mention(Some(UserX))>>)),
      Rec(Some(D1a), User(Some(UserA)), Null, Null),
      Rec(Some(D1a), User(Some(UserA)), Null, Some(<<>>))>>

\* "bob" and "alice" mentioned five times each
ScenarioTie ==
    <<Rec(Some(D1a), User(Some(UserA)), Null,
          Some([n \in 1..10 |->
                  Mention(Some(IF n % 2 = 1 THEN Bob ELSE Alice))]))>>

SeqsUpTo(S, n) == UNION {[1..k -> S] : k \in 0..n}

Scenarios == {ScenarioQ1, ScenarioQ2, ScenarioQ3, ScenarioTie}

\* file s with an undecodable line after its first k lines
WithBadLine(s, k) ==
    SubSeq(s, 1, k) \o <<Undecodable>> \o SubSeq(s, k + 1, Len(s))

\* the files the queries are run on
Sources ==
    Scenarios
    \cup {ScenarioQ1Ties}
    \cup SeqsUpTo(Q1Recs, MaxRecs)
    \cup {ElevenDays \o t : t \in SeqsUpTo(Q1Recs, MaxRecs - 1)}
    \cup SeqsUpTo(Q2Recs, MaxRecs)
    \cup SeqsUpTo(Q3Recs, MaxRecs)
    \cup UNION {{WithBadLine(s, k) : k \in 0..Min(1, Len(s))} :
                s \in Scenarios \cup {<<>>}}

----------------------------------------------------------------------------
(* The state machine: one query call at a time on an unchanged file *)

\* the locals of a call that has not begun
NoCall ==
    [fn |-> "none", pc |-> "idle", df |-> <<>>, acc |-> <<>>, top |-> <<>>,
     results |-> <<>>, i |-> 0, ret |-> NoReturn, scans |-> 0]

\* no call is in progress and none is suspended
Idle ==
    /\ fn = "none"
    /\ pc = "idle"
    /\ df = <<>>
    /\ acc = <<>>
    /\ top = <<>>
    /\ results = <<>>
    /\ i = 0
    /\ ret = NoReturn
    /\ scans = 0
    /\ other = NoCall
    /\ sample_size = Null
    /\ stats = <<>>

Init ==
    /\ \/ readable = TRUE /\ source \in Sources
       \/ readable = FALSE /\ source \in Scenarios
    /\ emit \in Orders
    /\ Idle

\* no call is in progress
Callable == pc = "idle"

\* the scans a call has begun once it has tried to open the file
Opened == IF readable THEN 1 ELSE 0

\* a call of q1_time, from entry to return or raise
Call_q1_time ==
    /\ Callable
    /\ fn' = "q1_time"
    /\ pc' = "done"
    /\ \E r \in {q1_time(source)} :
          df' = r.df /\ acc' = r.acc /\ top' = r.top /\ ret' = r.ret
    /\ results' = <<>>
    /\ i' = 0
    /\ scans' = Opened
    /\ emit' \in Orders
    /\ UNCHANGED <<sample_size, stats, readable, source, other>>

\* q1_memory, entry and first pass: lazy_df, then the collect() of top_dates
q1_memory_primary ==
    /\ Callable
    /\ fn' = "q1_memory"
    /\ IF ScanError(source) = "ok"
       THEN /\ pc' = "secondary"
            /\ acc' = Q1DateCounts(q1_memory_lazy_df(source))
            /\ top' = Q1TopDates(acc')
            /\ i' = 1
            /\ ret' = NoReturn
       ELSE /\ pc' = "done"
            /\ acc' = <<>>
            /\ top' = <<>>
            /\ i' = 0
            /\ ret' = Raised(ScanError(source))
    /\ df' = <<>>
    /\ results' = <<>>
    /\ scans' = Opened
    /\ emit' \in Orders
    /\ UNCHANGED <<sample_size, stats, readable, source, other>>

\* q1_memory, one iteration of the loop over top_dates: a collect() of the
\* top user of the date, then the append, or the exception
q1_memory_secondary ==
    /\ fn = "q1_memory"
    /\ pc = "secondary"
    /\ i <= Len(top)
    /\ acc' = Q1UserCounts(q1_memory_lazy_df(source), top[i][1])
    /\ LET e == Q1Entry(Q1TopUser(acc'), top[i][1])
       IN  IF e.status = "ok"
           THEN /\ results' = Append(results, e.value)
                /\ i' = i + 1
                /\ UNCHANGED <<pc, ret>>
           ELSE /\ ret' = e
                /\ pc' = "done"
                /\ UNCHANGED <<results, i>>
    /\ scans' = scans + 1
    /\ emit' \in Orders
    /\ UNCHANGED <<sample_size, stats, readable, source, other, fn, df, top>>

\* q1_memory, after the loop: return results
q1_memory_return ==
    /\ fn = "q1_memory"
    /\ pc = "secondary"
    /\ i > Len(top)
    /\ ret' = Returned(results)
    /\ pc' = "done"
    /\ UNCHANGED <<sample_size, stats, readable, source, other, emit, fn, df, acc, top, results,
                   i, scans>>

\* a call of q2_time
Call_q2_time ==
    /\ Callable
    /\ fn' = "q2_time"
    /\ pc' = "done"
    /\ \E r \in {q2_time(source)} :
          df' = r.df /\ acc' = r.acc /\ top' = r.top /\ ret' = r.ret
    /\ results' = <<>>
    /\ i' = 0
    /\ scans' = Opened
    /\ emit' \in Orders
    /\ UNCHANGED <<sample_size, stats, readable, source, other>>

\* q2_memory, entry: lazy_df, the empty Counter, df = lazy_df.collect()
q2_memory_collect ==
    /\ Callable
    /\ fn' = "q2_memory"
    /\ IF ScanError(source) = "ok"
       THEN /\ pc' = "rows"
            /\ df' = Q2Contents(source)
            /\ i' = 1
            /\ ret' = NoReturn
       ELSE /\ pc' = "done"
            /\ df' = <<>>
            /\ i' = 0
            /\ ret' = Raised(ScanError(source))
    /\ acc' = <<>>
    /\ top' = <<>>
    /\ results' = <<>>
    /\ scans' = Opened
    /\ UNCHANGED <<sample_size, stats, readable, source, other, emit>>

\* q2_memory, one iteration of the loop over the rows of df
q2_memory_iter ==
    /\ fn = "q2_memory"
    /\ pc = "rows"
    /\ i <= Len(df)
    /\ acc' = q2_memory_row(acc, df[i])
    /\ i' = i + 1
    /\ UNCHANGED <<sample_size, stats, readable, source, other, emit, fn, pc, df, top, results,
                   ret, scans>>

\* q2_memory, after the loop: del df, the sort, del emoji_counter, return
q2_memory_return ==
    /\ fn = "q2_memory"
    /\ pc = "rows"
    /\ i > Len(df)
    /\ df' = <<>>
    /\ top' = q2_memory_top_10(acc)
    /\ ret' = Returned(top')
    /\ pc' = "done"
    /\ UNCHANGED <<sample_size, stats, readable, source, other, emit, fn, acc, results, i, scans>>

\* a call of q3_time
Call_q3_time ==
    /\ Callable
    /\ fn' = "q3_time"
    /\ pc' = "done"
    /\ \E r \in {q3_time(source)} :
          df' = r.df /\ acc' = r.acc /\ top' = r.top /\ ret' = r.ret
    /\ results' = <<>>
    /\ i' = 0
    /\ scans' = Opened
    /\ emit' \in Orders
    /\ UNCHANGED <<sample_size, stats, readable, source, other>>

\* a call of q3_memory
Call_q3_memory ==
    /\ Callable
    /\ fn' = "q3_memory"
    /\ pc' = "done"
    /\ \E r \in {q3_memory(source)} :
          df' = r.df /\ acc' = r.acc /\ top' = r.top /\ ret' = r.ret
    /\ results' = <<>>
    /\ i' = 0
    /\ scans' = Opened
    /\ emit' \in Orders
    /\ UNCHANGED <<sample_size, stats, readable, source, other>>

\* the caller has taken what the call returned or raised; the locals of the
\* call are gone
Finish ==
    /\ pc = "done"
    /\ pc' = "idle"
    /\ df' = <<>>
    /\ acc' = <<>>
    /\ top' = <<>>
    /\ results' = <<>>
    /\ i' = 0
    /\ fn' = "none"
    /\ ret' = NoReturn
    /\ scans' = 0
    /\ UNCHANGED <<sample_size, stats, readable, source, other, emit>>

Next ==
    \/ Finish
    \/ Call_q1_time
    \/ q1_memory_primary
    \/ q1_memory_secondary
    \/ q1_memory_return
    \/ Call_q2_time
    \/ q2_memory_collect
    \/ q2_memory_iter
    \/ q2_memory_return
    \/ Call_q3_time
    \/ Call_q3_memory

Spec == Init /\ [][Next]_vars

----------------------------------------------------------------------------
(* Two calls on the same file, interleaved step by step *)

\* the names a call binds that live outside its frame, at module level
\* and so common to every call, with results among them
Shared_results == {"results"}

\* the names a call binds that live outside its frame: none, the modules
\* bind only their imports and the function
Shared == {}

\* the frame of the call in progress
Locals ==
    [fn |-> fn, pc |-> pc, df |-> df, acc |-> acc, top |-> top,
     results |-> results, i |-> i, ret |-> ret, scans |-> scans]

\* the call in progress is suspended and the other one goes on (or begins):
\* the frames change places, what is shared stays
Switch ==
    /\ \E cur \in {Locals} : other' = cur
    /\ fn' = other.fn
    /\ pc' = other.pc
    /\ df' = other.df
    /\ acc' = (IF "acc" \in Shared THEN acc ELSE other.acc)
    /\ top' = other.top
    /\ results' = (IF "results" \in Shared THEN results ELSE other.results)
    /\ i' = other.i
    /\ ret' = other.ret
    /\ scans' = other.scans
    /\ UNCHANGED <<sample_size, stats, readable, source, emit>>

\* the files two interleaved calls are run on
PairSources ==
    Scenarios
    \cup {WithBadLine(ScenarioQ1, 1)}
    \cup SeqsUpTo({Rec(Some(D1a), User(Some(UserA)), Some(Pray \o Grin), Null),
                   Rec(Some(D2a), User(Some(UserB)), Some(Grin), Null),
                   Rec(Some(BadDate), User(Some(UserA)), Null, Null)},
                  MaxRecs)

InitPair ==
    /\ readable = TRUE
    /\ source \in PairSources
    /\ emit \in Orders
    /\ Idle

NextPair == Next \/ Switch

SpecPair == InitPair /\ [][NextPair]_vars

----------------------------------------------------------------------------
(* The dataset profiler: dataset/dataset_profile.py *)

\* largest sample_size a call is given
MaxSample == 2

\* len(stats['parse_errors']) < 5: the parse errors the profiler keeps
MaxParseErrors == 5

\* a line that decodes to a JSON value that is no object, such as 42
NonDict == [nondict |-> "int"]

\* isinstance(tweet, dict)
IsDict(tweet) == "nondict" \notin DOMAIN tweet

\* stats = {...}: the dictionary as profile_dataset creates it
NewStats ==
    [total_lines |-> 0, valid_lines |-> 0, invalid_lines |-> 0,
     non_dict_lines |-> 0, parse_errors |-> <<>>, missing_fields |-> <<>>,
     field_types |-> <<>>, date_formats |-> <<>>, content_lengths |-> <<>>,
     mentions_stats |-> [with_mentions |-> 0, without_mentions |-> 0,
                         null_mentions |-> 0, empty_list_mentions |-> 0],
     processing_time |-> 0]

\* d[key] += 1 on a defaultdict(int) or a Counter
DefaultIncrement(d, key) ==
    IF key \in DOMAIN d THEN [d EXCEPT ![key] = @ + 1] ELSE d @@ (key :> 1)

\* stats['field_types'][field][field_type] += 1 on a defaultdict(Counter)
FieldTypeIncrement(d, field, field_type) ==
    IF field \in DOMAIN d
    THEN [d EXCEPT ![field] = DefaultIncrement(@, field_type)]
    ELSE d @@ (field :> (field_type :> 1))

\* type(tweet[field]).__name__ for the values the files hold: date and
\* content are strings, user is an object, mentionedUsers is a list, and
\* each of them may be null
TypeName(field, value) ==
    IF value = Null THEN "NoneType"
    ELSE CASE field = "user" -> "dict"
           [] field = "mentionedUsers" -> "list"
           [] OTHER -> "str"

critical_fields == <<"date", "content", "user", "mentionedUsers">>

\* the body of `for field in critical_fields`, from field number k on
RECURSIVE analyze_critical_fields(_, _, _)
analyze_critical_fields(tweet, st, k) ==
    IF k > Len(critical_fields) THEN st
    ELSE LET field == critical_fields[k]
             present == field \in DOMAIN tweet
             missed == IF ~present \/ tweet[field] = Null
                       THEN [st EXCEPT !.missing_fields = DefaultIncrement(@, field)]
                       ELSE st
             typed == IF present
                      THEN [missed EXCEPT !.field_types =
                               FieldTypeIncrement(@, field, TypeName(field, tweet[field]))]
                      ELSE missed
         IN  analyze_critical_fields(tweet, typed, k + 1)

\* 'T' in date_str ... elif '/' in date_str ... else
DateFormat(date_str) ==
    IF 84 \in Range(date_str) THEN "ISO-8601"
    ELSE IF 47 \in Range(date_str) THEN "MM/DD/YYYY"
    ELSE "OTHER"

\* if 'date' in tweet and tweet['date']: the date format counted
analyze_date(tweet, st) ==
    IF "date" \in DOMAIN tweet /\ tweet.date # Null /\ Len(tweet.date[1]) > 0
    THEN [st EXCEPT !.date_formats = DefaultIncrement(@, DateFormat(tweet.date[1]))]
    ELSE st

\* if 'content' in tweet and tweet['content']: the content length kept
analyze_content(tweet, st) ==
    IF "content" \in DOMAIN tweet /\ tweet.content # Null /\ Len(tweet.content[1]) > 0
    THEN [st EXCEPT !.content_lengths = Append(@, Len(tweet.content[1]))]
    ELSE st

\* if 'user' in tweet and tweet['user']: a user object without a username
analyze_user(tweet, st) ==
    IF /\ "user" \in DOMAIN tweet
       /\ tweet.user # Null
       /\ DOMAIN tweet.user[1] # {}
       /\ ("username" \notin DOMAIN tweet.user[1] \/ tweet.user[1].username = Null)
    THEN [st EXCEPT !.missing_fields = DefaultIncrement(@, "user.username")]
    ELSE st

\* the mentions branch; mentionedUsers is a list or null in the files, so
\* the last else of the source is not taken
analyze_mentions(tweet, st) ==
    IF "mentionedUsers" \notin DOMAIN tweet \/ tweet.mentionedUsers = Null
    THEN [st EXCEPT !.mentions_stats.null_mentions = @ + 1]
    ELSE IF Len(tweet.mentionedUsers[1]) = 0
    THEN [st EXCEPT !.mentions_stats.empty_list_mentions = @ + 1,
                    !.mentions_stats.without_mentions = @ + 1]
    ELSE [st EXCEPT !.mentions_stats.with_mentions = @ + 1]

\* analyze_tweet_fields(tweet, stats)
analyze_tweet_fields(tweet, st) ==
    analyze_mentions(tweet,
        analyze_user(tweet,
            analyze_content(tweet,
                analyze_date(tweet,
                    analyze_critical_fields(tweet, st, 1)))))

\* if len(stats['parse_errors']) < 5: stats['parse_errors'].append(...);
\* of an entry the line number and the kind of error are kept
AppendParseError(st, line_num, error) ==
    IF Len(st.parse_errors) < MaxParseErrors
    THEN [st EXCEPT !.parse_errors = Append(@, [line |-> line_num, error |-> error])]
    ELSE st

\* the body of the loop after the sample_size test: orjson.loads(line) and
\* what follows it
analyze_line(st, line_num, line) ==
    IF ~Decodes(line)
    THEN AppendParseError([st EXCEPT !.invalid_lines = @ + 1],
                          line_num, "JSONDecodeError")
    ELSE IF ~IsDict(line)
    THEN AppendParseError([st EXCEPT !.non_dict_lines = @ + 1,
                                     !.invalid_lines = @ + 1],
                          line_num, "Not a dictionary")
    ELSE analyze_tweet_fields(line, [st EXCEPT !.valid_lines = @ + 1])

\* list.sort() on a list of integers
RECURSIVE SortInts(_)
SortInts(s) ==
    IF s = <<>> THEN <<>>
    ELSE LET least == CHOOSE n \in DOMAIN s : \A m \in DOMAIN s : s[n] <= s[m]
         IN  <<s[least]>> \o
             SortInts(SubSeq(s, 1, least - 1) \o SubSeq(s, least + 1, Len(s)))

\* calculate_final_metrics(stats); a quotient of floats is kept as the pair
\* <<numerator, denominator>>
calculate_final_metrics(st) ==
    LET sorted == SortInts(st.content_lengths)
        n == Len(sorted)
        derived ==
            [invalid_percentage |->
                 IF st.total_lines > 0
                 THEN <<st.invalid_lines * 100, st.total_lines>> ELSE <<0, 1>>,
             content_stats |->
                 IF n > 0
                 THEN [min |-> sorted[1], max |-> sorted[n],
                       p50 |-> sorted[(n \div 2) + 1],
                       p95 |-> sorted[((n * 95) \div 100) + 1],
                       p99 |-> sorted[((n * 99) \div 100) + 1]]
                 ELSE <<>>,
             throughput |->
                 IF st.processing_time > 0
                 THEN <<st.total_lines, st.processing_time>> ELSE <<0, 1>>]
        keys == DOMAIN st \cup DOMAIN derived
    IN  [k \in keys |->
            IF k \in DOMAIN derived THEN derived[k]
            ELSE IF k = "content_lengths" THEN sorted
            ELSE st[k]]

\* longest wall-clock time, in ticks, between start_time and the end of
\* the loop
MaxElapsed == 1

\* the values sample_size is given: None, 0 and the positive sizes
SampleSizes == {Null} \cup {Some(n) : n \in 0..MaxSample}

\* "02/01/2021"
SlashDate == <<48, 50, 47, 48, 49, 47, 50, 48, 50, 49>>

\* the lines the profiled files are made of: tweets with all, some or none
\* of the fields, a line that is no JSON document and a line that is no
\* object
ProfileLines ==
    {Rec(Some(D1a), User(Some(UserA)), Some(Pray \o Grin),
         Some(<<Mention(Some(UserX))>>)),
     Rec(Null, Null, Null, Null),
     Rec(Some(BadDate), User(Null), Some(<<>>), Some(<<>>)),
     [date |-> Some(SlashDate)],
     [user |-> Some([id |-> 1]), content |-> Some(<<104, 105>>)],
     Undecodable,
     NonDict}

\* six lines that are no tweets, one more than the parse errors kept
SixInvalid == [n \in 1..(MaxParseErrors + 1) |->
                  IF n % 2 = 1 THEN Undecodable ELSE NonDict]

\* the files the profiler is run on
ProfileSources ==
    SeqsUpTo(ProfileLines, MaxRecs)
    \cup {SixInvalid \o t : t \in SeqsUpTo(ProfileLines, MaxRecs - 1)}

InitProfile ==
    /\ readable \in BOOLEAN
    /\ source \in ProfileSources
    /\ emit = "asc"
    /\ Idle

\* profile_dataset(file_path, sample_size) up to the loop: the import of
\* orjson, the new stats, open(file_path, 'rb')
profile_dataset_call ==
    /\ Callable
    /\ fn' = "profile_dataset"
    /\ i' = 0
    /\ \E n \in SampleSizes : sample_size' = n
    /\ \E orjson_installed \in BOOLEAN :
          IF ~orjson_installed
          THEN /\ stats' = stats
               /\ pc' = "done"
               /\ ret' = Returned(<<>>)
          ELSE IF ~readable
          THEN /\ stats' = NewStats
               /\ pc' = "done"
               /\ ret' = Returned(<<>>)
          ELSE /\ stats' = NewStats
               /\ pc' = "lines"
               /\ ret' = NoReturn
    /\ UNCHANGED <<readable, source, other, emit, df, acc, top, results, scans>>

\* one iteration of `for line_num, line in enumerate(f, 1)`
profile_dataset_line ==
    /\ fn = "profile_dataset"
    /\ pc = "lines"
    /\ i < Len(source)
    /\ i' = i + 1
    /\ \E counted \in {[stats EXCEPT !.total_lines = @ + 1]} :
          IF sample_size # Null /\ sample_size[1] # 0 /\ i + 1 > sample_size[1]
          THEN /\ stats' = counted
               /\ pc' = "final"
          ELSE /\ stats' = analyze_line(counted, i + 1, source[i + 1])
               /\ pc' = "lines"
    /\ UNCHANGED <<sample_size, readable, source, other, emit, fn, df, acc,
                   top, results, ret, scans>>

\* after the loop, left by break or at the end of the file: the processing
\* time, calculate_final_metrics(stats), return stats
profile_dataset_return ==
    /\ fn = "profile_dataset"
    /\ pc = "final" \/ (pc = "lines" /\ i = Len(source))
    /\ pc' = "done"
    /\ \E elapsed \in 0..MaxElapsed :
          \E final \in {calculate_final_metrics(
                            [stats EXCEPT !.processing_time = elapsed])} :
              /\ stats' = final
              /\ ret' = Returned(final)
    /\ UNCHANGED <<sample_size, readable, source, other, emit, fn, df, acc,
                   top, results, i, scans>>

NextProfile ==
    \/ profile_dataset_call
    \/ profile_dataset_line
    \/ profile_dataset_return

SpecProfile == InitProfile /\ [][NextProfile]_vars

----------------------------------------------------------------------------
(* What the file holds, counted record by record *)

\* the records with a non-null date and a non-null user.username
ValidRecs ==
    {n \in DOMAIN source :
        /\ source[n].date # Null
        /\ source[n].user # Null
        /\ source[n].user[1].username # Null}

\* the first ten characters of the date of record n
DayOf(n) ==
    LET d == source[n].date[1]
    IN  [k \in 1..(IF Len(d) < 10 THEN Len(d) ELSE 10) |-> d[k]]

AuthorOf(n) == source[n].user[1].username[1]

Days == {DayOf(n) : n \in ValidRecs}

DateCount(d) == Cardinality({n \in ValidRecs : DayOf(n) = d})

UserCount(d, u) ==
    Cardinality({n \in ValidRecs : DayOf(n) = d /\ AuthorOf(n) = u})

\* the places <<record, position>> of the file where an emoji stands
EmojiPlaces ==
    UNION {{<<n, p>> : p \in {q \in DOMAIN source[n].content[1] :
                                 IsEmoji(source[n].content[1][q])}} :
           n \in {m \in DOMAIN source : source[m].content # Null}}

EmojiAt(np) == <<source[np[1]].content[1][np[2]]>>

EmojiCount(e) == Cardinality({np \in EmojiPlaces : EmojiAt(np) = e})

\* the places <<record, position>> of the file where a mention names a user
MentionPlaces ==
    UNION {{<<n, p>> : p \in {q \in DOMAIN source[n].mentionedUsers[1] :
                                 /\ source[n].mentionedUsers[1][q] # Null
                                 /\ source[n].mentionedUsers[1][q][1].username # Null}} :
           n \in {m \in DOMAIN source : source[m].mentionedUsers # Null}}

MentionAt(np) == source[np[1]].mentionedUsers[1][np[2]][1].username[1]

MentionCount(u) == Cardinality({np \in MentionPlaces : MentionAt(np) = u})

\* a call of f has returned or raised
Done(f) == fn = f /\ pc = "done"

\* the file opens and every line of it decodes: its scans read records
Scanned == ScanError(source) = "ok"

\* two rows of a sorted table carry the same count
HasTie(rows) ==
    \E a, b \in DOMAIN rows : a # b /\ rows[a][2] = rows[b][2]

----------------------------------------------------------------------------
(* Strategy equivalence *)

\* C1: on every file, q1_memory ends as q1_time does on the same file: the
\* same list of (date, username) entries in the same order, or the same
\* exception.
Q1Equivalence == Done("q1_memory") => ret = q1_time(source).ret

\* q1_memory returned two or more entries for a file that holds a record
\* with a null date or user, tied date counts and tied user counts on a date
Q1EquivalenceWitness ==
    /\ Done("q1_memory")
    /\ ret.status = "ok"
    /\ Len(ret.value) >= 2
    /\ \E n \in DOMAIN source : source[n].date = Null \/ source[n].user = Null
    /\ HasTie(top)
    /\ \E d \in Days : \E m, n \in ValidRecs :
          /\ DayOf(m) = d /\ DayOf(n) = d /\ AuthorOf(m) # AuthorOf(n)
          /\ UserCount(d, AuthorOf(m)) = UserCount(d, AuthorOf(n))

\* C2: on every file, q2_memory returns the list of (emoji, count) pairs
\* that q2_time returns on the same file, in the same order.
Q2Equivalence == Done("q2_memory") => ret = q2_time(source).ret

\* q2_memory returned tied counts for a file with a null content
Q2EquivalenceWitness ==
    /\ Done("q2_memory")
    /\ ret.status = "ok"
    /\ HasTie(ret.value)
    /\ \E n \in DOMAIN source : source[n].content = Null

\* C3: on every file, q3_time and q3_memory return the same list of
\* (username, mention_count) pairs in the same order.
Q3Equivalence ==
    /\ Done("q3_memory") => ret = q3_time(source).ret
    /\ Done("q3_time") => ret = q3_memory(source).ret

\* q3_memory returned tied counts for a file with a null or empty list
Q3EquivalenceWitness ==
    /\ Done("q3_memory")
    /\ ret.status = "ok"
    /\ HasTie(ret.value)
    /\ \E n \in DOMAIN source :
          source[n].mentionedUsers \in {Null, Some(<<>>)}

----------------------------------------------------------------------------
(* Ordering and length of the results *)

\* string a stands before string b in lexicographic order
LexBefore(a, b) ==
    \/ \E k \in 1..Len(a) :
          /\ k <= Len(b)
          /\ a[k] < b[k]
          /\ \A j \in 1..(k - 1) : a[j] = b[j]
    \/ Len(a) < Len(b) /\ \A j \in 1..Len(a) : a[j] = b[j]

IsQ1 == fn \in {"q1_time", "q1_memory"}

IsQ2 == fn \in {"q2_time", "q2_memory"}

IsQ3 == fn \in {"q3_time", "q3_memory"}

\* a call has returned a list
ReturnedList == pc = "done" /\ ret.status = "ok"

\* C4: in every returned list of Q2 and Q3, consecutive entries have
\* count[n] >= count[n+1] and, on equal counts, key[n] < key[n+1]
\* lexicographically ("alice" before "bob" when both have count 5); the
\* dates Q1 returns stand in the order of their record counts descending,
\* then of their date strings ascending.
TopKOrdering ==
    /\ (ReturnedList /\ (IsQ2 \/ IsQ3)) =>
          \A n \in 1..(Len(ret.value) - 1) :
             \/ ret.value[n][2] > ret.value[n + 1][2]
             \/ /\ ret.value[n][2] = ret.value[n + 1][2]
                /\ LexBefore(ret.value[n][1], ret.value[n + 1][1])
    /\ (ReturnedList /\ IsQ1) =>
          /\ Len(ret.value) = Len(top)
          /\ \A n \in DOMAIN top :
                /\ top[n][1] \in Days
                /\ ret.value[n][1] = StrpTime(top[n][1])[1]
          /\ \A n \in 1..(Len(top) - 1) :
                \/ DateCount(top[n][1]) > DateCount(top[n + 1][1])
                \/ /\ DateCount(top[n][1]) = DateCount(top[n + 1][1])
                   /\ LexBefore(top[n][1], top[n + 1][1])
    /\ (ReturnedList /\ IsQ3 /\ readable /\ source = ScenarioTie) =>
          ret.value = <<<<Alice, 5>>, <<Bob, 5>>>>

\* q3_time returned "alice" then "bob", both mentioned five times
TopKOrderingWitness ==
    /\ Done("q3_time")
    /\ source = ScenarioTie
    /\ Len(ret.value) = 2
    /\ ret.value[1][2] = ret.value[2][2]

\* the number of distinct keys of the file for the query called
DistinctKeys ==
    IF IsQ1 THEN Cardinality(Days)
    ELSE IF IsQ2 THEN Cardinality({EmojiAt(np) : np \in EmojiPlaces})
    ELSE Cardinality({MentionAt(np) : np \in MentionPlaces})

\* C5: on every file, a call ends without error with a list of at most 10
\* entries, exactly min(10, number of distinct keys of the file) of them
\* (3 entries when the file has 3 distinct keys).
ResultLength ==
    pc = "done" =>
        /\ ret.status = "ok"
        /\ Len(ret.value) <= 10
        /\ Len(ret.value) = (IF DistinctKeys < 10 THEN DistinctKeys ELSE 10)

\* What holds of C5: every list a call does return has at most 10 entries,
\* exactly min(10, number of distinct keys of the file) of them.
ReturnedListLength ==
    ReturnedList =>
        /\ Len(ret.value) <= 10
        /\ Len(ret.value) = (IF DistinctKeys < 10 THEN DistinctKeys ELSE 10)

\* a call returned 3 entries for a file with 3 distinct keys
ReturnedListLengthWitness ==
    /\ ReturnedList
    /\ DistinctKeys = 3
    /\ Len(ret.value) = 3

----------------------------------------------------------------------------
(* Counting *)

RECURSIVE SumOver(_, _)
SumOver(a, ks) ==
    IF ks = {} THEN 0
    ELSE LET k == CHOOSE x \in ks : TRUE
         IN  a[k] + SumOver(a, ks \ {k})

\* the sum of all counts of an accumulator
SumCounts(a) == SumOver(a, DOMAIN a)

\* the emoji occurrences in the first m rows of df
EmojisInRows(m) ==
    Cardinality(UNION {{<<n, p>> : p \in {q \in DOMAIN df[n] : IsEmoji(df[n][q])}} :
                       n \in 1..m})

\* the accumulator is the one of Q1's primary pass
AfterPrimary ==
    \/ Done("q1_time") /\ Scanned
    \/ fn = "q1_memory" /\ pc = "secondary" /\ i = 1

\* C6: the counts of the full accumulator of a pass sum to the number of
\* keys extracted from the records the pass has consumed: q2_memory's
\* Counter after m rows holds one increment per emoji occurrence of these m
\* rows; after a whole pass the sum is the number of (record, key) pairs of
\* the file (of the selected date, in a secondary pass of q1_memory).
CountConservation ==
    /\ (fn = "q2_memory" /\ pc = "rows") =>
          SumCounts(acc) = EmojisInRows(i - 1)
    /\ (ReturnedList /\ IsQ2) => SumCounts(acc) = Cardinality(EmojiPlaces)
    /\ (ReturnedList /\ IsQ3) => SumCounts(acc) = Cardinality(MentionPlaces)
    /\ AfterPrimary => SumCounts(acc) = Cardinality(ValidRecs)
    /\ (fn = "q1_memory" /\ pc = "secondary" /\ i > 1) =>
          SumCounts(acc) = DateCount(top[i - 1][1])

\* q2_memory has consumed a row that repeats an emoji
CountConservationWitness ==
    /\ fn = "q2_memory"
    /\ pc = "rows"
    /\ i > 1
    /\ df[i - 1] = Pray \o Pray
    /\ SumCounts(acc) >= 3

\* C7: after Q1's primary pass the accumulator has exactly the dates of
\* the records whose date and user.username are both non-null, each date
\* being the first 10 characters of the date field, and counts exactly
\* these records: a record with a date and no username counts for nothing.
Q1PrimaryExtraction ==
    AfterPrimary =>
        /\ DOMAIN acc = Days
        /\ \A d \in Days : acc[d] = DateCount(d)

\* q1_memory's primary pass met a record with a date and no username, on a
\* date that other records give a count
Q1PrimaryExtractionWitness ==
    /\ fn = "q1_memory"
    /\ AfterPrimary
    /\ \E n \in DOMAIN source :
          /\ source[n].date # Null
          /\ n \notin ValidRecs
          /\ DayOf(n) \in DOMAIN acc
          /\ Len(source[n].date[1]) > 10

\* C8: in every list Q1 returns, the username paired with a date is the
\* one with the most valid records of that date, the lexicographically
\* smallest one among equals; records of other dates play no part.  Three
\* records on 2021-02-01 by A, A, B and one on 2021-02-02 by C give
\* [(2021-02-01, A), (2021-02-02, C)].
Q1SecondarySelection ==
    /\ (ReturnedList /\ IsQ1) =>
          \A n \in DOMAIN ret.value :
             LET d == top[n][1]
                 u == ret.value[n][2]
             IN  /\ UserCount(d, u) > 0
                 /\ \A m \in ValidRecs :
                       DayOf(m) = d =>
                          \/ UserCount(d, u) > UserCount(d, AuthorOf(m))
                          \/ /\ UserCount(d, u) = UserCount(d, AuthorOf(m))
                             /\ u = AuthorOf(m) \/ LexBefore(u, AuthorOf(m))
    /\ (pc = "done" /\ IsQ1 /\ readable /\ source = ScenarioQ1) =>
          ret = Returned(<<<<[year |-> 2021, month |-> 2, day |-> 1], UserA>>,
                           <<[year |-> 2021, month |-> 2, day |-> 2], UserC>>>>)

\* q1_memory returned for the file of the scenario
Q1SecondarySelectionWitness ==
    /\ Done("q1_memory")
    /\ source = ScenarioQ1
    /\ Len(ret.value) = 2

\* C9: Q2 counts every emoji occurrence of every non-null content, repeats
\* within one record included, and nothing else; contents
\* "\U0001F64F\U0001F64F", "\U0001F64F\U0001F600", null give
\* [("\U0001F64F", 3), ("\U0001F600", 1)].
Q2Multiplicity ==
    /\ (ReturnedList /\ IsQ2) =>
          /\ DOMAIN acc = {EmojiAt(np) : np \in EmojiPlaces}
          /\ \A e \in DOMAIN acc : acc[e] = EmojiCount(e)
          /\ \A n \in DOMAIN ret.value :
                ret.value[n][2] = EmojiCount(ret.value[n][1])
    /\ (pc = "done" /\ IsQ2 /\ readable /\ source = ScenarioQ2) =>
          ret = Returned(<<<<Pray, 3>>, <<Grin, 1>>>>)

\* q2_memory returned for the file of the scenario
Q2MultiplicityWitness ==
    /\ Done("q2_memory")
    /\ source = ScenarioQ2
    /\ Len(ret.value) = 2

\* C10: Q3 counts, for every username, the entries of the non-null,
\* non-empty mentionedUsers lists that name it, one increment per entry;
\* null, missing and empty lists contribute nothing; mention lists
\* [X, Y], [X], null, [] give [("X", 2), ("Y", 1)].
Q3Extraction ==
    /\ (ReturnedList /\ IsQ3) =>
          /\ DOMAIN acc = {MentionAt(np) : np \in MentionPlaces}
          /\ \A u \in DOMAIN acc : acc[u] = MentionCount(u)
          /\ \A n \in DOMAIN ret.value :
                ret.value[n][2] = MentionCount(ret.value[n][1])
    /\ (pc = "done" /\ IsQ3 /\ readable /\ source = ScenarioQ3) =>
          ret = Returned(<<<<UserX, 2>>, <<UserY, 1>>>>)

\* q3_time returned for the file of the scenario
Q3ExtractionWitness ==
    /\ Done("q3_time")
    /\ source = ScenarioQ3
    /\ Len(ret.value) = 2

----------------------------------------------------------------------------
(* Errors *)

\* C11: no record aborts a query: on every file that opens, decodes line
\* by line and holds a record, each of the six functions returns a list,
\* whatever the fields of the records hold (a date whose first 10
\* characters are no YYYY-MM-DD day included).
NoRecordAborts == (pc = "done" /\ Scanned) => ret.status = "ok"

\* the file with the lines that do not decode removed
Decodable(src) == SelectSeq(src, Decodes)

\* q2_memory's loop over all the rows of a frame
RECURSIVE q2_memory_rows(_, _)
q2_memory_rows(counter, rows) ==
    IF rows = <<>> THEN counter
    ELSE q2_memory_rows(q2_memory_row(counter, rows[1]), Tail(rows))

\* what a call of f on file src returns or raises when nothing else runs
Outcome(f, src) ==
    IF ScanError(src) # "ok" THEN Raised(ScanError(src))
    ELSE CASE f = "q1_time" -> q1_time(src).ret
           [] f = "q1_memory" ->
                q1_time_loop(q1_memory_lazy_df(src),
                             Q1TopDates(Q1DateCounts(q1_memory_lazy_df(src))))
           [] f = "q2_time" -> q2_time(src).ret
           [] f = "q2_memory" ->
                Returned(q2_memory_top_10(q2_memory_rows(<<>>, Q2Contents(src))))
           [] f = "q3_time" -> q3_time(src).ret
           [] f = "q3_memory" -> q3_memory(src).ret

\* C12: decode errors are skipped: on a file that holds lines that are no
\* JSON documents, each query scans to the end and returns what it returns
\* for the file with those lines removed.
DecodeErrorsSkipped ==
    (pc = "done" /\ readable) => ret = Outcome(fn, Decodable(source))

\* no record of the file yields a key for the query called
NoContribution ==
    /\ \A n \in DOMAIN source : Decodes(source[n])
    /\ IsQ1 => ValidRecs = {}
    /\ IsQ2 => EmojiPlaces = {}
    /\ IsQ3 => MentionPlaces = {}

\* C13: empty outcome: when the file is empty or none of its records
\* yields a key, each of the six functions returns the empty list and
\* raises nothing.
EmptyOutcome ==
    (pc = "done" /\ readable /\ NoContribution) => ret = Returned(<<>>)

----------------------------------------------------------------------------
(* Memory *)

MemoryFns == {"q1_memory", "q2_memory", "q3_memory"}

\* C14: bounded retention: at every point of a q1_memory, q2_memory or
\* q3_memory run the function holds the accumulator of the current pass
\* and small aggregates only; a record is let go once its keys are counted,
\* so the per-record values held together do not grow with the file: never
\* more than the one being counted.
BoundedRetention == fn \in MemoryFns => Len(df) <= 1

----------------------------------------------------------------------------
(* The file that cannot be read *)

\* C15: source unavailable is fatal and early: when file_path does not
\* resolve or cannot be read, the call ends with the error of the failed
\* open, having scanned nothing, counted nothing and built no result.
SourceUnavailableFatal ==
    (~readable /\ pc # "idle") =>
        /\ pc = "done"
        /\ ret = Raised("FileNotFoundError")
        /\ scans = 0
        /\ df = <<>>
        /\ acc = <<>>
        /\ top = <<>>
        /\ results = <<>>

\* q1_memory was called on a file of four records that cannot be read
SourceUnavailableFatalWitness ==
    /\ ~readable
    /\ Done("q1_memory")
    /\ source = ScenarioQ1
    /\ ret.status = "FileNotFoundError"

----------------------------------------------------------------------------
(* Shape and keys of the results *)

\* the usernames of the records Q1 counts
Authors == {AuthorOf(n) : n \in ValidRecs}

\* C16: every returned list is a sequence of (Key, count) pairs, the key a
\* string for Q2 and Q3 and a (date, username) pair for Q1, so that every
\* entry carries the count of its key.  A pair key is written flat: an
\* entry of Q1 is <<date, username, count>>.
ResultShape ==
    ReturnedList =>
        \A n \in DOMAIN ret.value :
           /\ Len(ret.value[n]) = (IF IsQ1 THEN 3 ELSE 2)
           /\ IsQ1 => ret.value[n][3] \in {DateCount(top[n][1]),
                                           UserCount(top[n][1], ret.value[n][2])}
           /\ IsQ2 => ret.value[n][2] = EmojiCount(ret.value[n][1])
           /\ IsQ3 => ret.value[n][2] = MentionCount(ret.value[n][1])

\* C16 as the code has it: every returned list has at most 10 entries, each
\* a pair: (emoji, count) and (username, count) with the count of the key
\* for Q2 and Q3, and (date, username) for Q1, the parsed top date and an
\* author of the file, with no count.
ResultShapeAsCoded ==
    ReturnedList =>
        /\ Len(ret.value) <= TopK
        /\ \A n \in DOMAIN ret.value :
              /\ Len(ret.value[n]) = 2
              /\ IsQ1 => /\ ret.value[n][1] = StrpTime(top[n][1])[1]
                         /\ ret.value[n][2] \in Authors
              /\ IsQ2 => ret.value[n][2] = EmojiCount(ret.value[n][1])
              /\ IsQ3 => ret.value[n][2] = MentionCount(ret.value[n][1])

\* q1_memory returned two or more (date, username) entries
ResultShapeAsCodedWitness ==
    /\ Done("q1_memory")
    /\ ret.status = "ok"
    /\ Len(ret.value) >= 2
    /\ \A n \in DOMAIN ret.value : ret.value[n][2] \in Authors

\* C17: distinct keys: no returned list has two entries with the same key:
\* no date twice in a list of Q1, no emoji twice in a list of Q2, no
\* username twice in a list of Q3.
DistinctResultKeys ==
    ReturnedList =>
        \A a, b \in DOMAIN ret.value :
           a # b => ret.value[a][1] # ret.value[b][1]

----------------------------------------------------------------------------
(* Runs repeated and interleaved *)

\* C18: determinism: two calls of the same function on the unchanged file
\* end alike, with the same list in the same order, ties included, or the
\* same exception, in whatever orders their group_bys emitted the groups
\* and whatever the first call did.
Determinism ==
    (pc = "done" /\ other.pc = "done" /\ other.fn = fn) => ret = other.ret

\* two calls of q3_time have returned a list with a tie
DeterminismWitness ==
    /\ Done("q3_time")
    /\ other.fn = "q3_time"
    /\ other.pc = "done"
    /\ ret.status = "ok"
    /\ HasTie(ret.value)

\* C19: no cross-run interference: of two calls interleaved step by step
\* on the unchanged file, each ends as it does when it runs alone.
NoInterference ==
    /\ pc = "done" => ret = Outcome(fn, source)
    /\ other.pc = "done" => other.ret = Outcome(other.fn, source)

\* a call of q1_memory has returned while another call of q1_memory is
\* suspended inside its loop, with one entry appended
NoInterferenceWitness ==
    /\ Done("q1_memory")
    /\ ret.status = "ok"
    /\ Len(ret.value) = 2
    /\ other.fn = "q1_memory"
    /\ other.pc = "secondary"
    /\ other.i = 2

----------------------------------------------------------------------------
(* Passes of q1_memory *)

UserCountsOf(d) ==
    [u \in {AuthorOf(n) : n \in {m \in ValidRecs : DayOf(m) = d}} |->
        UserCount(d, u)]

\* one step of q1_memory from inside its loop
PassStep ==
    (fn = "q1_memory" /\ pc = "secondary") =>
        /\ top = Q1TopDates(Q1DateCounts(q1_time_df(source)))
        /\ scans = i
        /\ Len(results) = i - 1
        /\ i > 1 => acc = UserCountsOf(top[i - 1][1])
        /\ top' = top
        /\ i <= Len(top) =>
              /\ scans' = scans + 1
              /\ acc' = UserCountsOf(top[i][1])
              /\ pc' = "secondary" =>
                    /\ i' = i + 1
                    /\ results' = Append(results, <<StrpTime(top[i][1])[1],
                                                    Q1TopUser(acc')[1][1]>>)

\* C21: pass ordering and isolation in q1_memory: when the loop begins the
\* primary pass is over and top_dates is the final top-date list of the
\* whole file; the secondary passes run one at a time, the i-th for the
\* i-th top date, each a scan of the whole file from its first line whose
\* accumulator holds the counts of that date alone; top_dates never changes
\* after the primary pass.
PassOrdering == [][PassStep]_vars

\* q1_memory is inside its loop with two secondary passes made and a third
\* top date to come
PassOrderingWitness ==
    /\ fn = "q1_memory"
    /\ pc = "secondary"
    /\ i = 3
    /\ Len(top) >= 3
    /\ Len(results) = 2
    /\ top[1][1] # top[2][1]

\* Q1 has selected its top dates and read, or is about to read, the top
\* user of each
Q1Selected ==
    \/ Done("q1_time") /\ Scanned
    \/ fn = "q1_memory" /\ pc = "secondary"
    \/ Done("q1_memory") /\ Scanned

\* C22: the secondary pass of Q1 is never empty: every date q1_time or
\* q1_memory selects is the truncated date of a record with a date and a
\* username, so the top-user table of the date has its one row, reading
\* its username at index 0 raises no IndexError, and a returned list has
\* one entry per selected date.
SecondaryNeverEmpty ==
    /\ Q1Selected =>
          /\ \A n \in DOMAIN top :
                /\ \E m \in ValidRecs : DayOf(m) = top[n][1]
                /\ Len(Q1TopUser(Q1UserCounts(q1_time_df(source), top[n][1]))) = 1
          /\ ret.status # "IndexError"
    /\ (fn = "q1_memory" /\ pc = "secondary" /\ i > 1) =>
          Len(Q1TopUser(acc)) = 1
    /\ (ReturnedList /\ IsQ1) => Len(ret.value) = Len(top)

\* q1_memory returned one entry for each of its two top dates from a file
\* that also holds a record with a date and no user
SecondaryNeverEmptyWitness ==
    /\ Done("q1_memory")
    /\ ret.status = "ok"
    /\ Len(top) = 2
    /\ Len(ret.value) = 2
    /\ \E n \in DOMAIN source : source[n].date # Null /\ n \notin ValidRecs

\* an entry of a mention list that names no user: a null entry or an entry
\* whose username is null
NullHandle(entry) == entry = Null \/ entry[1].username = Null

NamesUser(entry) == ~NullHandle(entry)

\* the file with the entries that name no user taken out of every mention
\* list
WithoutNullHandles(src) ==
    [n \in DOMAIN src |->
        IF Decodes(src[n]) /\ src[n].mentionedUsers # Null
        THEN [src[n] EXCEPT !.mentionedUsers =
                  Some(SelectSeq(src[n].mentionedUsers[1], NamesUser))]
        ELSE src[n]]

\* the mention entries of the file that name no user
NullHandlePlaces ==
    UNION {{<<n, p>> : p \in {q \in DOMAIN source[n].mentionedUsers[1] :
                                 NullHandle(source[n].mentionedUsers[1][q])}} :
           n \in {m \in DOMAIN source :
                     Decodes(source[m]) /\ source[m].mentionedUsers # Null}}

\* C23: mention entries with a null username (or null entries) contribute
\* nothing to Q3: every key of the counts and of the returned list is the
\* username of an entry that names a user, and the list q3_time and
\* q3_memory return is the list they return for the file with those
\* entries removed, so the count of no other username changes.
Q3NullHandles ==
    (ReturnedList /\ IsQ3) =>
        /\ \A u \in DOMAIN acc : \E np \in MentionPlaces : MentionAt(np) = u
        /\ \A n \in DOMAIN ret.value :
              \E np \in MentionPlaces : MentionAt(np) = ret.value[n][1]
        /\ ret = Outcome(fn, WithoutNullHandles(source))

\* a Q3 function returned a non-empty list for a file with a mention entry
\* that names no user
Q3NullHandlesWitness ==
    /\ ReturnedList
    /\ IsQ3
    /\ NullHandlePlaces # {}
    /\ Len(ret.value) >= 1

----------------------------------------------------------------------------
(* The profiler's line counts *)

\* profile_dataset has returned its stats for a file it could open
ProfileReturned ==
    /\ Done("profile_dataset")
    /\ readable
    /\ "total_lines" \in DOMAIN ret.value

\* C24: profiler line accounting: after profile_dataset returns for a
\* readable file and a sample_size that is None or a positive N,
\* total_lines = valid_lines + invalid_lines, non_dict_lines <=
\* invalid_lines, and with sample_size = N only the first N lines are
\* analysed and counted.
ProfilerLineAccounting ==
    (ProfileReturned /\ (sample_size = Null \/ sample_size[1] > 0)) =>
        /\ ret.value.total_lines = ret.value.valid_lines + ret.value.invalid_lines
        /\ ret.value.non_dict_lines <= ret.value.invalid_lines
        /\ sample_size # Null =>
              ret.value.total_lines = Min(sample_size[1], Len(source))

====
